---- MODULE Spec2Model ----
(***************************************************************************)
(* A model of src/window.cc: the Window (selections, coordinate mapping,   *)
(* scrolling, filters, undo-grouped edits) and the IncrementalInserter.    *)
(* Buffer, BufferIterator, DisplayBuffer/DisplayAtom and the assert macro  *)
(* are collaborators whose code is outside src/: they follow spec.md.      *)
(***************************************************************************)
EXTENDS Integers, Sequences, FiniteSets, TLC

VARIABLES
    text,        \* Buffer contents: a sequence of characters
    depth,       \* Buffer: number of undo groups currently open
    gstart,      \* Buffer: contents when the outermost open group was opened
    undo_stack,  \* Buffer: one entry (the contents to restore) per undoable step
    selections,  \* Window::m_selections
    position,    \* Window::m_position (scroll origin, a BufferCoord)
    dimensions,  \* Window::m_dimensions
    display,     \* Window::m_display_buffer: a sequence of DisplayAtoms
    filters,     \* Window::m_filters: the filter ids, in order
    inserter,    \* Window::m_current_inserter: 0 is nullptr, else an inserter
    live,        \* the IncrementalInserter objects that exist
    last         \* what the last operation did (its observable outcome)

vars == <<text, depth, gstart, undo_stack, selections, position, dimensions,
          display, filters, inserter, live, last>>

-----------------------------------------------------------------------------
(* Bounds of the model *)

\* longest buffer the edits may produce
MaxLen == 2
\* most selections a Window holds in the model
MaxSels == 2
\* most undoable steps the Buffer remembers in the model
MaxUndo == 1
\* iterators range over 0..MaxPos in the merge_with specification
MaxPos == 3
\* most IncrementalInserter objects that can be attempted at once
MaxInserters == 2
\* a cursor motion is taken while the scroll origin is within MaxScroll
MaxScroll == 2
\* most operations applied to a drawn Window in the operation specification
MaxOps == 2

NL  == "\n"
TAB == "\t"

Min(a, b) == IF a <= b THEN a ELSE b
Max(a, b) == IF a >= b THEN a ELSE b
Clamp(lo, hi, v) == Max(lo, Min(hi, v))

-----------------------------------------------------------------------------
(* Coordinates: BufferCoord and DisplayCoord *)

Coord(l, c) == [line |-> l, column |-> c]

CoordAdd(a, b) == Coord(a.line + b.line, a.column + b.column)

\* lexicographic order, line first
CoordLess(a, b) ==
    IF a.line # b.line THEN a.line < b.line ELSE a.column < b.column

CoordLeq(a, b) == a = b \/ CoordLess(a, b)

-----------------------------------------------------------------------------
(* Buffer and BufferIterator: an iterator is an offset in 0..Len(t) *)

\* iterator + n and iterator - n stay inside the buffer
ItAdd(t, it, n) == Clamp(0, Len(t), it + n)

\* *it; reading through the end iterator is undefined: endch is what it yields
CharAt(t, it, endch) == IF it < Len(t) THEN t[it + 1] ELSE endch

\* the offsets at which a line starts
LineStarts(t) == {0} \cup {o + 1 : o \in {p \in 0..(Len(t) - 1) : t[p + 1] = NL}}

LineCount(t) == Cardinality(LineStarts(t))

\* the start of line l (0-based)
LineStart(t, l) ==
    CHOOSE s \in LineStarts(t) : Cardinality({x \in LineStarts(t) : x < s}) = l

\* the length of line l, its newline included
LineLength(t, l) ==
    IF l + 1 < LineCount(t) THEN LineStart(t, l + 1) - LineStart(t, l)
                            ELSE Len(t) - LineStart(t, l)

\* Buffer::line_and_column_at
BufLineAndColumnAt(t, it) ==
    LET l == Cardinality({s \in LineStarts(t) : s <= it}) - 1
    IN  Coord(l, it - LineStart(t, l))

\* Buffer::iterator_at: the coordinate is clamped into the buffer
BufIteratorAt(t, c) ==
    LET l   == Clamp(0, LineCount(t) - 1, c.line)
        col == Clamp(0, Max(0, LineLength(t, l) - 1), c.column)
    IN  LineStart(t, l) + col

-----------------------------------------------------------------------------
(* Selection *)

Sel(f, l, caps) == [first |-> f, last |-> l, captures |-> caps]

\* Selection::begin
SelBegin(s) == Min(s.first, s.last)

\* Selection::end
SelEnd(t, s) == ItAdd(t, Max(s.first, s.last), 1)

\* a plausible slip: the anchor always moves to the smaller iterator
merge_with_min(sel, other) ==
    [sel EXCEPT !.first = Min(sel.first, other.first), !.last = other.last]

\* Selection::merge_with
merge_with(sel, other) ==
    IF sel.first <= sel.last
    THEN [sel EXCEPT !.first = Min(sel.first, other.first), !.last = other.last]
    ELSE [sel EXCEPT !.first = Max(sel.first, other.first), !.last = other.last]

\* Selection::capture
SelCapture(s, index) ==
    IF index < Len(s.captures) THEN s.captures[index + 1] ELSE <<>>

-----------------------------------------------------------------------------
(* DisplayAtom and DisplayBuffer *)

\* columns between tab stops (expand_tabs)
TabStop == 8

\* repl is the width of the replacement text, 0 when the atom shows its source
Atom(c, b, e, r) == [coord |-> c, begin |-> b, end |-> e, repl |-> r]

RECURSIVE MeasureFrom(_, _, _, _)
\* measure_string, started at coordinate c, over the characters [b, e) of t
MeasureFrom(c, t, b, e) ==
    IF b >= e THEN c
    ELSE MeasureFrom(IF CharAt(t, b, "") = NL THEN Coord(c.line + 1, 0)
                                              ELSE Coord(c.line, c.column + 1),
                     t, b + 1, e)

\* DisplayAtom::line_and_column_at
AtomLineAndColumnAt(t, a, it) ==
    IF a.repl > 0 THEN a.coord ELSE MeasureFrom(a.coord, t, a.begin, it)

RECURSIVE AtomWalk(_, _, _, _, _)
AtomWalk(t, a, dc, it, pos) ==
    IF it >= a.end THEN a.end
    ELSE LET np == MeasureFrom(pos, t, it, it + 1)
         IN  IF dc = np THEN it + 1
             ELSE IF CoordLess(dc, np) THEN it
             ELSE AtomWalk(t, a, dc, it + 1, np)

\* DisplayAtom::iterator_at; the iterators of an atom built before an erase
\* stay inside the buffer (the nearest surviving boundary)
AtomIteratorAt(t, a, dc) ==
    Min(Len(t), IF a.repl > 0 \/ CoordLeq(dc, a.coord) THEN a.begin
                ELSE AtomWalk(t, a, dc, a.begin, a.coord))

\* the coordinate just after atom a
AtomEndCoord(t, a) ==
    IF a.repl > 0 THEN Coord(a.coord.line, a.coord.column + a.repl)
    ELSE MeasureFrom(a.coord, t, a.begin, a.end)

RECURSIVE TabAtoms(_, _, _, _, _)
\* the atoms of [b, e) laid out from coordinate c, each tab an atom of its own
\* replaced by spaces up to the next tab stop; s is the start of the open run
TabAtoms(t, c, s, b, e) ==
    IF b >= e THEN (IF s < e THEN <<Atom(c, s, e, 0)>> ELSE <<>>)
    ELSE IF CharAt(t, b, "") = TAB
         THEN LET run  == IF s < b THEN <<Atom(c, s, b, 0)>> ELSE <<>>
                  tc   == MeasureFrom(c, t, s, b)
                  w    == TabStop - (tc.column % TabStop)
                  tab  == Atom(tc, b, b + 1, w)
              IN  run \o <<tab>> \o
                  TabAtoms(t, Coord(tc.line, tc.column + w), b + 1, b + 1, e)
         ELSE TabAtoms(t, c, s, b + 1, e)

RECURSIVE ExpandTabs(_, _, _)
\* the expand_tabs filter over the atoms d, laid out from coordinate c
ExpandTabs(t, d, c) ==
    IF d = <<>> THEN <<>>
    ELSE LET a    == Head(d)
             out  == IF a.repl > 0 THEN <<[a EXCEPT !.coord = c]>>
                     ELSE TabAtoms(t, c, a.begin, a.begin, a.end)
             last_ == out[Len(out)]
         IN  out \o ExpandTabs(t, Tail(d), AtomEndCoord(t, last_))

RECURSIVE SplitAtom(_, _, _)
\* atom a cut at the iterators of the set cuts that lie strictly inside it
SplitAtom(t, a, cuts) ==
    LET inside == {x \in cuts : a.begin < x /\ x < a.end}
    IN  IF a.repl > 0 \/ inside = {} THEN <<a>>
        ELSE LET x == CHOOSE y \in inside : \A z \in inside : y <= z
             IN  <<Atom(a.coord, a.begin, x, 0)>> \o
                 SplitAtom(t, Atom(MeasureFrom(a.coord, t, a.begin, x), x, a.end, 0),
                           cuts)

RECURSIVE SplitAll(_, _, _)
SplitAll(t, d, cuts) ==
    IF d = <<>> THEN <<>>
    ELSE SplitAtom(t, Head(d), cuts) \o SplitAll(t, Tail(d), cuts)

\* the highlight_selections filter: atoms are cut at the selections' bounds
HighlightSelections(t, d, sels) ==
    SplitAll(t, d, {SelBegin(sels[i]) : i \in DOMAIN sels}
                   \cup {SelEnd(t, sels[i]) : i \in DOMAIN sels})

\* one filter of m_filters applied to the display buffer; the other filters
\* (hlcpp, user filters) only set attributes, which the model does not hold
ApplyFilter(id, t, d, sels) ==
    CASE id = "expand_tabs"          -> ExpandTabs(t, d, Coord(0, 0))
      [] id = "highlight_selections" -> HighlightSelections(t, d, sels)
      [] OTHER                       -> d

RECURSIVE ApplyFilters(_, _, _, _)
ApplyFilters(fs, t, d, sels) ==
    IF fs = <<>> THEN d
    ELSE ApplyFilters(Tail(fs), t, ApplyFilter(Head(fs), t, d, sels), sels)

-----------------------------------------------------------------------------
(* The state an operation works on.  ok turns FALSE when an error is raised *)
(* (a buffer error or a failed assert) and the rest of the body is skipped; *)
(* failAt is the buffer call of this operation that raises (0: none); log   *)
(* is the order of the operation's calls on the Buffer and on the inserter  *)
(* pointer: "begin", "end", "mutate", "register", "move", "clear".          *)

World(f) ==
    [text |-> text, depth |-> depth, gstart |-> gstart, undo_stack |-> undo_stack,
     sels |-> selections, position |-> position, dimensions |-> dimensions,
     display |-> display, inserter |-> inserter,
     ok |-> TRUE, failAt |-> f, calls |-> 0,
     begins |-> 0, ends |-> 0, outside |-> FALSE,
     scrolled |-> FALSE, cursor |-> Coord(0, 0), pos0 |-> position,
     log |-> <<>>]

ShiftInsert(it, pos, n) == IF it >= pos THEN it + n ELSE it

ShiftErase(it, b, e) ==
    IF it >= e THEN it - (e - b) ELSE IF it > b THEN b ELSE it

\* the iterators the selections hold follow the text (iterator stability)
SelsAfterInsert(sels, pos, n) ==
    [i \in DOMAIN sels |->
        [sels[i] EXCEPT !.first = ShiftInsert(@, pos, n),
                        !.last  = ShiftInsert(@, pos, n)]]

SelsAfterErase(sels, b, e) ==
    [i \in DOMAIN sels |->
        [sels[i] EXCEPT !.first = ShiftErase(@, b, e),
                        !.last  = ShiftErase(@, b, e)]]

\* Buffer::insert(pos, s)
BufInsert(w, pos, s) ==
    IF ~w.ok THEN w
    ELSE IF w.calls + 1 = w.failAt THEN [w EXCEPT !.ok = FALSE, !.calls = @ + 1]
    ELSE [w EXCEPT !.text = SubSeq(w.text, 1, pos) \o s \o
                             SubSeq(w.text, pos + 1, Len(w.text)),
                   !.sels = SelsAfterInsert(w.sels, pos, Len(s)),
                   !.calls = @ + 1,
                   !.outside = @ \/ w.depth = 0,
                   !.log = Append(@, "mutate")]

\* Buffer::erase(b, e)
BufErase(w, b, e) ==
    IF ~w.ok THEN w
    ELSE IF w.calls + 1 = w.failAt THEN [w EXCEPT !.ok = FALSE, !.calls = @ + 1]
    ELSE [w EXCEPT !.text = SubSeq(w.text, 1, b) \o
                             SubSeq(w.text, e + 1, Len(w.text)),
                   !.sels = SelsAfterErase(w.sels, b, e),
                   !.calls = @ + 1,
                   !.outside = @ \/ w.depth = 0,
                   !.log = Append(@, "mutate")]

\* Buffer::begin_undo_group
BeginUndoGroup(w) ==
    [w EXCEPT !.depth = @ + 1, !.begins = @ + 1,
              !.gstart = IF w.depth = 0 THEN w.text ELSE @,
              !.log = Append(@, "begin")]

\* Buffer::end_undo_group: closing the outermost group makes one undoable step
EndUndoGroup(w) ==
    [w EXCEPT !.depth = @ - 1, !.ends = @ + 1,
              !.undo_stack = IF w.depth = 1 THEN Append(@, w.gstart) ELSE @,
              !.gstart = IF w.depth = 1 THEN <<>> ELSE @,
              !.log = Append(@, "end")]

\* Buffer::undo: the last step is taken back; FALSE when there is none
BufUndo(w) ==
    IF w.undo_stack = <<>> THEN [w EXCEPT !.ok = FALSE]
    ELSE LET t == w.undo_stack[Len(w.undo_stack)]
         IN  [w EXCEPT !.text = t,
                       !.undo_stack = SubSeq(@, 1, Len(@) - 1),
                       !.sels = [i \in DOMAIN w.sels |->
                                   [w.sels[i] EXCEPT
                                      !.first = Min(@, Len(t)),
                                      !.last  = Min(@, Len(t))]]]

-----------------------------------------------------------------------------
(* Window: coordinate mapping and scrolling *)

\* Window::check_invariant: the assert raises when there is no selection
check_invariant(w) ==
    IF w.ok /\ w.sels = <<>> THEN [w EXCEPT !.ok = FALSE] ELSE w

\* the least index of the set of indices I, 0 when I is empty
FirstOf(I) == IF I = {} THEN 0 ELSE CHOOSE i \in I : \A j \in I : i <= j

\* the first atom whose coord is beyond window_pos, 0 when there is none
FirstBeyond(d, window_pos) ==
    FirstOf({i \in DOMAIN d : CoordLess(window_pos, d[i].coord)})

\* the first atom that ends after it, 0 when there is none
FirstHolding(d, it) == FirstOf({i \in DOMAIN d : d[i].end > it})

\* Window::iterator_at, on buffer t, display buffer d and scroll origin pos
iterator_at(t, d, pos, window_pos) ==
    IF d = <<>> THEN 0
    ELSE LET k == FirstBeyond(d, window_pos)
         IN  IF CoordLeq(Coord(0, 0), window_pos) /\ k > 1
             THEN AtomIteratorAt(t, d[k - 1], window_pos)
             ELSE BufIteratorAt(t, CoordAdd(pos, window_pos))

\* Window::line_and_column_at
line_and_column_at(t, d, pos, it) ==
    IF d = <<>> THEN Coord(0, 0)
    ELSE LET k == FirstHolding(d, it)
         IN  IF it >= d[1].begin /\ it < d[Len(d)].end /\ k > 0
             THEN AtomLineAndColumnAt(t, d[k], it)
             ELSE LET c == BufLineAndColumnAt(t, it)
                  IN  Coord(c.line - pos.line, c.column - pos.column)

\* the assert inside Window::line_and_column_at fails
LineAndColumnAsserts(d, it) ==
    LET k == FirstHolding(d, it)
    IN  d # <<>> /\ it >= d[1].begin /\ it < d[Len(d)].end /\ k > 0
        /\ ~(d[k].begin <= it)

\* a plausible slip: the sign of the one is wrong
ScrollAxisOver(p, c, dim) ==
    IF c < 0 THEN Max(p + c, 0)
    ELSE IF c >= dim THEN p + c - (dim + 1)
    ELSE p

\* a plausible slip: the window scrolls by a whole page
ScrollAxisPage(p, c, dim) ==
    IF c < 0 THEN Max(p + c, 0)
    ELSE IF c >= dim THEN p + c - dim
    ELSE p

\* one axis of Window::scroll_to_keep_cursor_visible_ifn
ScrollAxis(p, c, dim) ==
    IF c < 0 THEN Max(p + c, 0)
    ELSE IF c >= dim THEN p + c - (dim - 1)
    ELSE p

\* Window::scroll_to_keep_cursor_visible_ifn
scroll_to_keep_cursor_visible_ifn(w0) ==
    LET w == check_invariant(w0)
    IN  IF ~w.ok THEN w
        ELSE LET it == w.sels[Len(w.sels)].last
             IN  IF LineAndColumnAsserts(w.display, it) THEN [w EXCEPT !.ok = FALSE]
                 ELSE LET cursor == line_and_column_at(w.text, w.display,
                                                       w.position, it)
                      IN  [w EXCEPT !.position =
                             Coord(ScrollAxis(w.position.line, cursor.line,
                                              w.dimensions.line),
                                   ScrollAxis(w.position.column, cursor.column,
                                              w.dimensions.column)),
                                    !.scrolled = TRUE, !.cursor = cursor,
                                    !.pos0 = w.position]

-----------------------------------------------------------------------------
(* Window: edit operations *)

RECURSIVE EraseLoop(_, _)
EraseLoop(w, i) ==
    IF ~w.ok \/ i > Len(w.sels) THEN w
    ELSE EraseLoop(BufErase(w, SelBegin(w.sels[i]), SelEnd(w.text, w.sels[i])),
                   i + 1)

\* Window::erase_noundo
erase_noundo(w) ==
    scroll_to_keep_cursor_visible_ifn(EraseLoop(check_invariant(w), 1))

RECURSIVE InsertLoop(_, _, _)
InsertLoop(w, s, i) ==
    IF ~w.ok \/ i > Len(w.sels) THEN w
    ELSE InsertLoop(BufInsert(w, SelBegin(w.sels[i]), s), s, i + 1)

\* a plausible slip: only the primary selection gets the string
insert_noundo_primary(w, s) ==
    IF ~w.ok \/ w.sels = <<>> THEN w
    ELSE scroll_to_keep_cursor_visible_ifn(
           BufInsert(w, SelBegin(w.sels[Len(w.sels)]), s))

\* Window::insert_noundo
insert_noundo(w, s) ==
    IF ~w.ok THEN w ELSE scroll_to_keep_cursor_visible_ifn(InsertLoop(w, s, 1))

RECURSIVE AppendLoop(_, _, _)
AppendLoop(w, s, i) ==
    IF ~w.ok \/ i > Len(w.sels) THEN w
    ELSE AppendLoop(BufInsert(w, SelEnd(w.text, w.sels[i]), s), s, i + 1)

\* Window::append_noundo
append_noundo(w, s) ==
    IF ~w.ok THEN w ELSE scroll_to_keep_cursor_visible_ifn(AppendLoop(w, s, 1))

\* a plausible slip: the group is closed on the normal path only
ScopeExitOnSuccess(w) == IF w.ok THEN EndUndoGroup(w) ELSE w

\* scoped_undo_group::~scoped_undo_group: runs on every exit of the scope
ScopeExit(w) == EndUndoGroup(w)

\* scoped_undo_group::scoped_undo_group
ScopeEnter(w) == BeginUndoGroup(w)

\* a plausible slip: the erase is not wrapped in an undo group
window_erase_nogroup(w) == erase_noundo(w)

\* Window::erase
window_erase(w) == ScopeExit(erase_noundo(ScopeEnter(w)))

\* Window::insert
window_insert(w, s) == ScopeExit(insert_noundo(ScopeEnter(w), s))

\* Window::append
window_append(w, s) == ScopeExit(append_noundo(ScopeEnter(w), s))

\* a plausible slip: replace made of the two public operations
window_replace_two_groups(w, s) == window_insert(window_erase(w), s)

\* Window::replace
window_replace(w, s) ==
    ScopeExit(insert_noundo(erase_noundo(ScopeEnter(w)), s))

-----------------------------------------------------------------------------
(* Window: selection operations and cursor motion *)

\* the selectors (BufferIterator -> Selection) the callers pass in the model
Selectors == {"char", "right", "left", "all", "all_rev"}

Selector(k, t, it) ==
    CASE k = "char"    -> Sel(it, it, <<>>)
      [] k = "right"   -> Sel(it, ItAdd(t, it, 1), <<>>)
      [] k = "left"    -> Sel(it, ItAdd(t, it, -1), <<>>)
      [] k = "all"     -> Sel(0, Max(0, Len(t) - 1), << <<"a">> >>)
      [] k = "all_rev" -> Sel(Max(0, Len(t) - 1), 0, <<>>)

\* the multi-selectors (Selection -> list of Selection) of the model
MultiSelectors == {"none", "same", "ends"}

MultiSelector(k, t, sel) ==
    CASE k = "none" -> <<>>
      [] k = "same" -> <<sel>>
      [] k = "ends" -> <<Sel(SelBegin(sel), SelBegin(sel), sel.captures),
                         Sel(Max(sel.first, sel.last), Max(sel.first, sel.last),
                             sel.captures)>>

\* Window::clear_selections
clear_selections(w0) ==
    LET w == check_invariant(w0)
    IN  IF ~w.ok THEN w
        ELSE [w EXCEPT !.sels = <<Sel(w.sels[Len(w.sels)].last,
                                      w.sels[Len(w.sels)].last, <<>>)>>]

\* Window::select
select(w0, k, append) ==
    LET w == check_invariant(w0)
    IN  IF ~w.ok THEN w
        ELSE scroll_to_keep_cursor_visible_ifn(
               IF ~append
               THEN [w EXCEPT !.sels = <<Selector(k, w.text,
                                                  w.sels[Len(w.sels)].last)>>]
               ELSE [w EXCEPT !.sels =
                       [i \in DOMAIN w.sels |->
                          merge_with(w.sels[i],
                                     Selector(k, w.text, w.sels[i].last))]])

RECURSIVE Concat(_)
Concat(ss) == IF ss = <<>> THEN <<>> ELSE Head(ss) \o Concat(Tail(ss))

\* Window::multi_select
multi_select(w0, k) ==
    LET w == check_invariant(w0)
    IN  IF ~w.ok THEN w
        ELSE scroll_to_keep_cursor_visible_ifn(
               [w EXCEPT !.sels =
                  Concat([i \in DOMAIN w.sels |->
                            MultiSelector(k, w.text, w.sels[i])])])

\* Window::move_cursor_to
move_cursor_to(w, it) ==
    IF ~w.ok THEN w
    ELSE scroll_to_keep_cursor_visible_ifn([w EXCEPT !.sels = <<Sel(it, it, <<>>)>>])

\* a plausible slip: with append the anchor moves along with the cursor
move_cursor_anchor(w0, offset, append) ==
    IF ~append
    THEN LET w == check_invariant(w0)
         IN  IF ~w.ok THEN w
             ELSE move_cursor_to(w,
                    BufIteratorAt(w.text,
                       CoordAdd(BufLineAndColumnAt(w.text, w.sels[Len(w.sels)].last),
                                offset)))
    ELSE scroll_to_keep_cursor_visible_ifn(
           [w0 EXCEPT !.sels =
              [i \in DOMAIN w0.sels |->
                 LET it == BufIteratorAt(w0.text,
                             CoordAdd(BufLineAndColumnAt(w0.text, w0.sels[i].last),
                                      offset))
                 IN  Sel(it, it, <<>>)]])

\* Window::move_cursor
move_cursor(w0, offset, append) ==
    IF ~append
    THEN LET w == check_invariant(w0)
         IN  IF ~w.ok THEN w
             ELSE move_cursor_to(w,
                    BufIteratorAt(w.text,
                       CoordAdd(BufLineAndColumnAt(w.text, w.sels[Len(w.sels)].last),
                                offset)))
    ELSE scroll_to_keep_cursor_visible_ifn(
           [w0 EXCEPT !.sels =
              [i \in DOMAIN w0.sels |->
                 Sel(w0.sels[i].first,
                     BufIteratorAt(w0.text,
                        CoordAdd(BufLineAndColumnAt(w0.text, w0.sels[i].last),
                                 offset)),
                     <<>>)]])

\* Window::update_display_buffer
update_display_buffer(w, fs) ==
    LET begin == BufIteratorAt(w.text, w.position)
        end   == ItAdd(w.text,
                       BufIteratorAt(w.text, CoordAdd(w.position, w.dimensions)), 1)
    IN  IF begin = end THEN [w EXCEPT !.display = <<>>]
        ELSE [w EXCEPT !.display =
                ApplyFilters(fs, w.text, <<Atom(Coord(0, 0), begin, end, 0)>>,
                             w.sels)]

\* Window::add_filter: TRUE when filter_id_not_unique is raised
AddFilterThrows(fs, id) == \E i \in DOMAIN fs : fs[i] = id

\* a plausible slip: the filter is added without looking for its id
add_filter_unchecked(fs, id) == Append(fs, id)

\* Window::add_filter: the filter list afterwards
add_filter(fs, id) == IF AddFilterThrows(fs, id) THEN fs ELSE Append(fs, id)

\* Window::remove_filter: the first filter of that id is removed
remove_filter(fs, id) ==
    IF \E i \in DOMAIN fs : fs[i] = id
    THEN LET k == CHOOSE i \in DOMAIN fs : fs[i] = id /\ \A j \in 1..(i - 1) : fs[j] # id
         IN  SubSeq(fs, 1, k - 1) \o SubSeq(fs, k + 1, Len(fs))
    ELSE fs

-----------------------------------------------------------------------------
(* IncrementalInserter *)

Modes == {"Insert", "Append", "Change", "OpenLineBelow", "AppendAtLineEnd",
          "OpenLineAbove", "InsertAtLineBegin"}

RECURSIVE ScanForward(_, _)
\* while (not pos.is_end() and *pos != '\n') ++pos;
ScanForward(t, pos) ==
    IF pos >= Len(t) \/ t[pos + 1] = NL THEN pos ELSE ScanForward(t, pos + 1)

RECURSIVE ScanBackward(_, _, _)
\* while (not pos.is_begin() and *pos != '\n') --pos;
ScanBackward(t, pos, endch) ==
    IF pos = 0 \/ CharAt(t, pos, endch) = NL THEN pos
    ELSE ScanBackward(t, pos - 1, endch)

\* a plausible slip: the caret is built without the captures
Reshaped_bare(sel, pos) == Sel(pos, pos, <<>>)

\* sel = Selection(pos, pos, sel.captures())
Reshaped(sel, pos) == Sel(pos, pos, sel.captures)

\* one turn of the constructor's loop, on selection i
InserterPlace(w, mode, i, endch) ==
    LET sel == w.sels[i]
        t   == w.text
        Put(v, pos) == [v EXCEPT !.sels[i] = Reshaped(sel, pos)]
    IN  CASE mode \in {"Insert", "Change"} -> Put(w, SelBegin(sel))
          [] mode = "Append" -> Put(w, SelEnd(t, sel))
          [] mode = "AppendAtLineEnd" ->
                Put(w, ScanForward(t, ItAdd(t, SelEnd(t, sel), -1)))
          [] mode = "OpenLineBelow" ->
                LET pos == ItAdd(t, ScanForward(t, ItAdd(t, SelEnd(t, sel), -1)), 1)
                    v   == BufInsert(w, pos, <<NL>>)
                IN  IF v.ok THEN Put(v, pos) ELSE v
          [] mode = "OpenLineAbove" ->
                LET pos == ScanBackward(t, SelBegin(sel), endch)
                    v   == BufInsert(w, pos, <<NL>>)
                IN  IF v.ok THEN Put(v, ItAdd(v.text, pos, 1)) ELSE v
          [] mode = "InsertAtLineBegin" ->
                Put(w, ItAdd(t, ScanBackward(t, SelBegin(sel), endch), 1))

RECURSIVE InserterLoop(_, _, _, _)
InserterLoop(w, mode, i, endch) ==
    IF ~w.ok \/ i > Len(w.sels) THEN w
    ELSE InserterLoop(InserterPlace(w, mode, i, endch), mode, i + 1, endch)

\* IncrementalInserter::IncrementalInserter; the object exists iff ok
inserter_new(w, id, mode, endch) ==
    IF w.inserter # 0 THEN [w EXCEPT !.ok = FALSE]
    ELSE LET w1 == check_invariant([w EXCEPT !.inserter = id,
                                             !.log = Append(@, "register")])
             w2 == IF w1.ok THEN BeginUndoGroup(w1) ELSE w1
             w3 == IF mode = "Change" THEN erase_noundo(w2) ELSE w2
         IN  InserterLoop(w3, mode, 1, endch)

\* IncrementalInserter::move_cursor; raise: a buffer error stops it at once
inserter_move_cursor(w, offset, raise) ==
    IF ~w.ok THEN w
    ELSE IF raise \/ \E i \in DOMAIN w.sels :
                        LineAndColumnAsserts(w.display, w.sels[i].last)
    THEN [w EXCEPT !.ok = FALSE]
    ELSE [w EXCEPT !.sels =
            [i \in DOMAIN w.sels |->
               LET pos == line_and_column_at(w.text, w.display, w.position,
                                             w.sels[i].last)
                   it  == iterator_at(w.text, w.display, w.position,
                                      CoordAdd(pos, offset))
               IN  Sel(it, it, <<>>)],
                   !.log = Append(@, "move")]

\* IncrementalInserter::~IncrementalInserter
inserter_delete(w, id, raise) ==
    LET w1 == inserter_move_cursor(w, Coord(0, -1), raise)
        w2 == IF w1.ok /\ w1.inserter # id THEN [w1 EXCEPT !.ok = FALSE] ELSE w1
    IN  IF w2.ok
        THEN EndUndoGroup([w2 EXCEPT !.inserter = 0, !.log = Append(@, "clear")])
        ELSE w2

\* a plausible slip: the session's insert goes through Window::insert
inserter_insert_grouped(w, s) == window_insert(w, s)

\* IncrementalInserter::insert
inserter_insert(w, s) == insert_noundo(w, s)

RECURSIVE CaptureLoop(_, _, _)
CaptureLoop(w, index, i) ==
    IF ~w.ok \/ i > Len(w.sels) THEN w
    ELSE CaptureLoop(BufInsert(w, SelBegin(w.sels[i]),
                               SelCapture(w.sels[i], index)),
                     index, i + 1)

\* IncrementalInserter::insert_capture
inserter_insert_capture(w, index) ==
    scroll_to_keep_cursor_visible_ifn(CaptureLoop(w, index, 1))

\* IncrementalInserter::erase
inserter_erase(w) ==
    scroll_to_keep_cursor_visible_ifn(
      erase_noundo(
        [w EXCEPT !.sels =
           [i \in DOMAIN w.sels |->
              Sel(ItAdd(w.text, w.sels[i].first, -1),
                  ItAdd(w.text, w.sels[i].last, -1), <<>>)]]))

-----------------------------------------------------------------------------
(* The operations as actions *)

Scrollable == position.line <= MaxScroll /\ position.column <= MaxScroll

\* the display buffer is what update_display_buffer would build now
\* (fresh0: it was so, and not empty, when the operation began)
UpToDate == display = update_display_buffer(World(0), filters).display

RECURSIVE Coalesced(_)
\* the display buffer d with the cuts of highlight_selections taken back
Coalesced(d) ==
    IF Len(d) < 2 THEN d
    ELSE LET r == Coalesced(Tail(d))
         IN  IF d[1].repl = 0 /\ r[1].repl = 0 /\ d[1].end = r[1].begin
             THEN <<Atom(d[1].coord, d[1].begin, r[1].end, 0)>> \o Tail(r)
             ELSE <<d[1]>> \o r

\* the display buffer d maps every iterator it covers to its buffer
\* line/column minus the scroll origin pos
Faithful(t, d, pos) ==
    d # <<>> =>
        \A it \in d[1].begin .. (d[Len(d)].end - 1) :
            LET c == BufLineAndColumnAt(t, it)
            IN  line_and_column_at(t, d, pos, it) =
                    Coord(c.line - pos.line, c.column - pos.column)

\* the display buffer was rebuilt since position, dimensions and the buffer
\* contents last changed (the selections may have changed), and is faithful
RebuiltFaithful ==
    /\ display # <<>>
    /\ Coalesced(display) =
          Coalesced(update_display_buffer(World(0), filters).display)
    /\ Faithful(text, display, position)

\* what an operation did, as its caller can observe it
Outcome(op, w) ==
    [op |-> op, ok |-> w.ok, begins |-> w.begins, ends |-> w.ends,
     depth0 |-> depth, text0 |-> IF op = "replace" THEN text ELSE <<>>,
     ins0 |-> inserter, calls |-> w.calls, outside |-> w.outside,
     fresh0 |-> (display # <<>> /\ UpToDate), scrolled |-> w.scrolled,
     cursor |-> w.cursor, pos0 |-> w.pos0, log |-> w.log,
     faithful0 |-> RebuiltFaithful]

Commit(op, v) ==
    \E w \in {v} :
    /\ text' = w.text
    /\ depth' = w.depth
    /\ gstart' = w.gstart
    /\ undo_stack' = w.undo_stack
    /\ selections' = w.sels
    /\ position' = w.position
    /\ dimensions' = w.dimensions
    /\ display' = w.display
    /\ inserter' = w.inserter
    /\ last' = Outcome(op, w)

\* the strings the callers insert in the model
Strings == {<<"a">>, <<NL>>}

InserterIds == 1..MaxInserters

\* the identity of the next IncrementalInserter to be constructed
NewInserter ==
    CHOOSE id \in InserterIds \ (live \cup {inserter}) :
        \A x \in InserterIds \ (live \cup {inserter}) : id <= x

Offsets == {Coord(0, 1), Coord(0, -1), Coord(1, 0), Coord(-1, 0)}

\* an edit may close a group only while the Buffer can remember one more step
Room(n) ==
    /\ Len(text) + n <= MaxLen
    /\ depth > 0 \/ Len(undo_stack) < MaxUndo

Insert ==
    \E s \in Strings, f \in 0..Len(selections) :
        /\ Room(Len(selections) * Len(s))
        /\ Commit("insert", window_insert(World(f), s))
        /\ UNCHANGED <<filters, live>>

AppendText ==
    \E s \in Strings, f \in 0..Len(selections) :
        /\ Room(Len(selections) * Len(s))
        /\ Commit("append", window_append(World(f), s))
        /\ UNCHANGED <<filters, live>>

Erase ==
    \E f \in 0..Len(selections) :
        /\ Room(0)
        /\ Commit("erase", window_erase(World(f)))
        /\ UNCHANGED <<filters, live>>

Replace ==
    \E s \in Strings, f \in 0..(2 * Len(selections)) :
        /\ Room(Len(selections) * Len(s))
        /\ Commit("replace", window_replace(World(f), s))
        /\ UNCHANGED <<filters, live>>

\* Window::undo, outside of any open group
Undo ==
    /\ depth = 0
    /\ Commit("undo", BufUndo(World(0)))
    /\ UNCHANGED <<filters, live>>

ClearSelections ==
    /\ Commit("clear_selections", clear_selections(World(0)))
    /\ UNCHANGED <<filters, live>>

Select ==
    \E k \in Selectors, append \in BOOLEAN :
        /\ Commit("select", select(World(0), k, append))
        /\ UNCHANGED <<filters, live>>

MultiSelect ==
    \E k \in MultiSelectors :
        /\ k = "ends" => 2 * Len(selections) <= MaxSels
        /\ Commit("multi_select", multi_select(World(0), k))
        /\ UNCHANGED <<filters, live>>

MoveCursor ==
    \E offset \in Offsets, append \in BOOLEAN :
        /\ Scrollable
        /\ Commit("move_cursor", move_cursor(World(0), offset, append))
        /\ UNCHANGED <<filters, live>>

MoveCursorTo ==
    \E it \in 0..Len(text) :
        /\ Scrollable
        /\ Commit("move_cursor_to", move_cursor_to(World(0), it))
        /\ UNCHANGED <<filters, live>>

InserterNew ==
    \E mode \in Modes, endch \in {NL, "a"}, f \in 0..Len(selections) :
        /\ Len(text) + Len(selections) <= MaxLen
        /\ InserterIds \ (live \cup {inserter}) # {}
        /\ \E w \in {inserter_new(World(f), NewInserter, mode, endch)} :
               /\ Commit("inserter_new", w)
               /\ live' = IF w.ok THEN live \cup {NewInserter} ELSE live
        /\ UNCHANGED filters

InserterDelete ==
    \E id \in live, raise \in BOOLEAN :
        /\ depth > 1 \/ Len(undo_stack) < MaxUndo
        /\ Commit("inserter_delete", inserter_delete(World(0), id, raise))
        /\ live' = live \ {id}
        /\ UNCHANGED filters

InserterInsert ==
    \E id \in live, s \in Strings, f \in 0..Len(selections) :
        /\ Len(text) + Len(selections) * Len(s) <= MaxLen
        /\ Commit("inserter_insert", inserter_insert(World(f), s))
        /\ UNCHANGED <<filters, live>>

InserterInsertCapture ==
    \E id \in live, index \in 0..1, f \in 0..Len(selections) :
        /\ Len(text) + Len(selections) <= MaxLen
        /\ Commit("inserter_insert_capture",
                  inserter_insert_capture(World(f), index))
        /\ UNCHANGED <<filters, live>>

InserterErase ==
    \E id \in live, f \in 0..Len(selections) :
        /\ Commit("inserter_erase", inserter_erase(World(f)))
        /\ UNCHANGED <<filters, live>>

InserterMoveCursor ==
    \E id \in live, offset \in Offsets :
        /\ Commit("inserter_move_cursor",
                  inserter_move_cursor(World(0), offset, FALSE))
        /\ UNCHANGED <<filters, live>>

-----------------------------------------------------------------------------
(* The edit specification: a Window on a small buffer, its dimensions set, *)
(* edited through the Window and through inserter sessions.                *)

DefaultFilters == <<"expand_tabs", "highlight_selections", "hlcpp">>

NoOutcome ==
    [op |-> "new", ok |-> TRUE, begins |-> 0, ends |-> 0, depth0 |-> 0,
     text0 |-> <<>>, ins0 |-> 0, calls |-> 0, outside |-> FALSE,
     fresh0 |-> FALSE,
     scrolled |-> FALSE, cursor |-> Coord(0, 0), pos0 |-> Coord(0, 0),
     log |-> <<>>, faithful0 |-> FALSE]

\* Window::Window on a buffer holding t
Constructed(t) ==
    /\ text = t
    /\ depth = 0
    /\ gstart = <<>>
    /\ undo_stack = <<>>
    /\ selections = <<Sel(0, 0, <<>>)>>
    /\ position = Coord(0, 0)
    /\ display = <<>>
    /\ filters = DefaultFilters
    /\ inserter = 0
    /\ live = {}
    /\ last = NoOutcome

InitTexts == {<<>>, <<"a", NL>>, <<NL, "a">>}

\* a new Window after set_dimensions((2, 2))
Init ==
    /\ \E t \in InitTexts : Constructed(t)
    /\ dimensions = Coord(2, 2)

Next ==
    \/ Insert \/ AppendText \/ Erase \/ Replace \/ Undo
    \/ ClearSelections \/ Select \/ MultiSelect \/ MoveCursor \/ MoveCursorTo
    \/ InserterNew \/ InserterDelete \/ InserterInsert \/ InserterInsertCapture
    \/ InserterErase \/ InserterMoveCursor

Spec == Init /\ [][Next]_vars

-----------------------------------------------------------------------------
(* Claims checked under Spec *)

\* C1: after any sequence of public Window operations the selection list is
\* non-empty, also after multi_select with a selector that returns no selection.
C1_SelectionsNonEmpty == selections # <<>>

\* C2: a Window has at most one active IncrementalInserter; a construction on
\* a Window whose current inserter is set fails and does not replace it; and
\* the current inserter is set exactly while a constructed inserter exists.
C2_OneInserterExactly ==
    /\ Cardinality(live) <= 1
    /\ (last.op = "inserter_new" /\ last.ins0 # 0) =>
          (~last.ok /\ inserter = last.ins0)
    /\ inserter # 0 <=> inserter \in live

C4_MutationsInsideGroup == ~last.outside

C4_Witness ==
    /\ last.op = "inserter_new" /\ last.ok /\ last.calls > 0
    /\ ~last.outside

\* C5: Window::insert, append, erase and replace leave the number of open undo
\* groups as it was on every exit, normal or by an error part-way through, and
\* call begin_undo_group and end_undo_group once each.
C5_UndoGroupBalanced ==
    last.op \in {"insert", "append", "erase", "replace"} =>
        /\ depth = last.depth0
        /\ last.begins = 1 /\ last.ends = 1

C5_Witness ==
    /\ last.op = "replace" /\ ~last.ok /\ last.calls > 1
    /\ depth = last.depth0

\* C6: on any exit of an IncrementalInserter, also by an error during its
\* construction or its destruction, the Window's current inserter is cleared
\* and the undo group the inserter opened is closed.
C6_InserterReleased ==
    /\ (last.op = "inserter_new" /\ ~last.ok /\ last.ins0 = 0) =>
          (inserter = 0 /\ depth = last.depth0)
    /\ last.op = "inserter_delete" =>
          (inserter = 0 /\ depth = last.depth0 - 1)

\* how often the call c is in the log l, and where it is first
Count(l, c) == Cardinality({i \in DOMAIN l : l[i] = c})
Before(l, c, d) ==
    \A i, j \in DOMAIN l : (l[i] = c /\ l[j] = d) => i < j

SessionOps == {"inserter_insert", "inserter_insert_capture", "inserter_erase",
               "inserter_move_cursor"}

\* C14: an inserter session that ends without error calls begin_undo_group
\* once, at construction and before any buffer mutation; its insert,
\* insert_capture, erase and move_cursor open and close no group; its
\* destruction calls end_undo_group once, after the final cursor move and after
\* the Window's inserter pointer is cleared; the number of open groups is then
\* what it was before the construction.
C14_SessionUndoGroup ==
    /\ (last.op = "inserter_new" /\ last.ok) =>
          /\ Count(last.log, "begin") = 1 /\ Count(last.log, "end") = 0
          /\ Before(last.log, "begin", "mutate")
          /\ last.depth0 = 0 /\ depth = 1
    /\ (last.op \in SessionOps /\ last.ins0 \in live) =>
          /\ Count(last.log, "begin") = 0 /\ Count(last.log, "end") = 0
          /\ depth = last.depth0
    /\ inserter \in live => depth = 1
    /\ (last.op = "inserter_delete" /\ last.ok) =>
          /\ last.log = <<"move", "clear", "end">>
          /\ inserter = 0
          /\ depth = 0

C14_Witness ==
    /\ last.op = "inserter_delete" /\ last.ok
    /\ last.log = <<"move", "clear", "end">>
    /\ depth = 0
    /\ undo_stack # <<>>
    /\ undo_stack[Len(undo_stack)] # text

-----------------------------------------------------------------------------
(* The merge specification: Selection::merge_with on every pair of          *)
(* selections over the iterators 0..MaxPos.                                 *)

InitMerge ==
    /\ Constructed(<<>>)
    /\ dimensions = Coord(0, 0)

\* the Window holds the selection sel
HoldSelection ==
    \E f \in 0..MaxPos, l \in 0..MaxPos :
        /\ selections' = <<Sel(f, l, <<>>)>>
        /\ last' = [op |-> "hold"]
        /\ UNCHANGED <<text, depth, gstart, undo_stack, position, dimensions,
                       display, filters, inserter, live>>

\* sel.merge_with(other)
MergeWith ==
    \E f \in 0..MaxPos, l \in 0..MaxPos :
        /\ selections' = <<merge_with(selections[1], Sel(f, l, <<>>))>>
        /\ last' = [op |-> "merge_with", sel0 |-> selections[1],
                    other |-> Sel(f, l, <<>>)]
        /\ UNCHANGED <<text, depth, gstart, undo_stack, position, dimensions,
                       display, filters, inserter, live>>

NextMerge == HoldSelection \/ MergeWith

SpecMerge == InitMerge /\ [][NextMerge]_vars

\* C7: after sel.merge_with(other), for every other, a forward sel is forward,
\* a reverse sel is reverse, and the new last is other.last.
C7_DirectionPreserved ==
    last.op = "merge_with" =>
        LET s0 == last.sel0
            s  == selections[1]
        IN  /\ s0.first <= s0.last => s.first <= s.last
            /\ s0.first > s0.last => s.first > s.last
            /\ s.last = last.other.last

\* C7 as amended: the new last is other.last; a forward sel stays forward
\* exactly when other is forward or sel.first <= other.last; a reverse sel
\* stays reverse exactly when other is reverse or sel.first > other.last.
C7_DirectionPreservedWhen ==
    last.op = "merge_with" =>
        LET s0 == last.sel0
            o  == last.other
            s  == selections[1]
        IN  /\ s0.first <= s0.last =>
                 (s.first <= s.last <=> (o.first <= o.last \/ s0.first <= o.last))
            /\ s0.first > s0.last =>
                 (s.first > s.last <=> (o.first > o.last \/ s0.first > o.last))
            /\ s.last = o.last

C7_Witness ==
    /\ last.op = "merge_with"
    /\ last.sel0.first > last.sel0.last
    /\ last.other.first > last.other.last
    /\ selections[1].first = last.other.first
    /\ selections[1].first # last.sel0.first
    /\ selections[1].first > selections[1].last

-----------------------------------------------------------------------------
(* The filter specification: add_filter and remove_filter on a new Window   *)

FilterIds == {"expand_tabs", "highlight_selections", "hlcpp", "f1", "f2"}

InitFilter ==
    /\ Constructed(<<>>)
    /\ dimensions = Coord(0, 0)

AddFilter ==
    \E id \in FilterIds :
        /\ filters' = add_filter(filters, id)
        /\ last' = [op |-> "add_filter", ok |-> ~AddFilterThrows(filters, id),
                    id |-> id, filters0 |-> filters]
        /\ UNCHANGED <<text, depth, gstart, undo_stack, selections, position,
                       dimensions, display, inserter, live>>

RemoveFilter ==
    \E id \in FilterIds :
        /\ filters' = remove_filter(filters, id)
        /\ last' = [op |-> "remove_filter", ok |-> TRUE,
                    id |-> id, filters0 |-> filters]
        /\ UNCHANGED <<text, depth, gstart, undo_stack, selections, position,
                       dimensions, display, inserter, live>>

NextFilter == AddFilter \/ RemoveFilter

SpecFilter == InitFilter /\ [][NextFilter]_vars

\* C9: the filter ids of a Window are pairwise distinct; add_filter with an id
\* already present raises filter_id_not_unique and leaves the filter list as
\* it was; add_filter with a new id appends it at the end.
C9_FilterIdsUnique ==
    /\ \A i, j \in DOMAIN filters : filters[i] = filters[j] => i = j
    /\ last.op = "add_filter" =>
          IF \E i \in DOMAIN last.filters0 : last.filters0[i] = last.id
          THEN ~last.ok /\ filters = last.filters0
          ELSE last.ok /\ filters = Append(last.filters0, last.id)

C9_Witness ==
    /\ last.op = "add_filter" /\ ~last.ok
    /\ filters = <<"hlcpp", "f1", "expand_tabs">>
    /\ last.id = "f1"

-----------------------------------------------------------------------------
(* The operation specification: a Window that holds drawn selections on a   *)
(* drawn buffer, rendered once; up to MaxOps Window or inserter operations  *)
(* are applied, and last keeps the buffer and the selections each found.    *)

OpTexts == {<<>>, <<"a">>, <<"a", "b", NL, "c", "d">>,
            <<"a", "b", "c", NL, "d", "e", "f">>}

\* one caret anywhere; one selection of two characters, forward or reverse,
\* with a capture; two carets, the second with a capture
OpSelections(t) ==
    {<<Sel(p, p, <<>>)>> : p \in 0..Len(t)}
    \cup UNION {{<<Sel(p, q, << <<"X">> >>)>> :
                    q \in {x \in 0..Len(t) : x - p \in {-1, 1}}} : p \in 0..Len(t)}
    \cup UNION {{<<Sel(p, p, <<>>), Sel(q, q, << <<"X">> >>)>> :
                    q \in {x \in 0..Len(t) : x - p \in {-3, 0, 3}}} : p \in 0..Len(t)}

OpStrings == {<<"X">>, <<"X", "Y">>}

OpDimensions == Coord(3, 80)

\* what an operation found and did
OpOutcome(op, w, mode, offset, append, s) ==
    [op |-> op, ok |-> w.ok, text0 |-> text, sels0 |-> selections,
     depth0 |-> depth, mode |-> mode, offset |-> offset, append |-> append,
     s |-> s, n |-> last.n + 1, log |-> w.log,
     scrolled |-> w.scrolled, faithful0 |-> RebuiltFaithful]

OpCommit(v, rec) ==
    \E w \in {v} :
    /\ text' = w.text
    /\ depth' = w.depth
    /\ gstart' = w.gstart
    /\ undo_stack' = w.undo_stack
    /\ selections' = w.sels
    /\ position' = w.position
    /\ dimensions' = w.dimensions
    /\ display' = w.display
    /\ inserter' = w.inserter
    /\ last' = rec

\* a Window on t after select, set_dimensions and update_display_buffer
InitOps ==
    \E t \in OpTexts : \E sels \in OpSelections(t) :
        /\ text = t
        /\ depth = 0
        /\ gstart = <<>>
        /\ undo_stack = <<>>
        /\ selections = sels
        /\ position = Coord(0, 0)
        /\ dimensions = OpDimensions
        /\ filters = DefaultFilters
        /\ display = update_display_buffer(
                        [text |-> t, sels |-> sels, position |-> Coord(0, 0),
                         dimensions |-> OpDimensions, display |-> <<>>],
                        DefaultFilters).display
        /\ inserter = 0
        /\ live = {}
        /\ last = [op |-> "drawn", ok |-> TRUE, text0 |-> t, sels0 |-> sels,
                   depth0 |-> 0, mode |-> "", offset |-> Coord(0, 0),
                   append |-> FALSE, s |-> <<>>, n |-> 0, log |-> <<>>,
                   scrolled |-> FALSE, faithful0 |-> FALSE]

OpInsert ==
    \E s \in OpStrings :
        /\ last.n < MaxOps
        /\ \E w \in {window_insert(World(0), s)} :
               OpCommit(w, OpOutcome("insert", w, "", Coord(0, 0), FALSE, s))
        /\ UNCHANGED <<filters, live>>

OpMoveCursor ==
    \E offset \in Offsets, append \in BOOLEAN :
        /\ last.n < MaxOps
        /\ \E w \in {move_cursor(World(0), offset, append)} :
               OpCommit(w, OpOutcome("move_cursor", w, "", offset, append, <<>>))
        /\ UNCHANGED <<filters, live>>

OpInserterNew ==
    \E mode \in Modes, endch \in {NL, "a"} :
        /\ last.n < MaxOps
        /\ InserterIds \ (live \cup {inserter}) # {}
        /\ \E w \in {inserter_new(World(0), NewInserter, mode, endch)} :
               /\ OpCommit(w, OpOutcome("inserter_new", w, mode, Coord(0, 0),
                                        FALSE, <<>>))
               /\ live' = IF w.ok THEN live \cup {NewInserter} ELSE live
        /\ UNCHANGED filters

OpInserterInsert ==
    \E id \in live, s \in OpStrings :
        /\ last.n < MaxOps
        /\ \E w \in {inserter_insert(World(0), s)} :
               OpCommit(w, OpOutcome("inserter_insert", w, "", Coord(0, 0),
                                     FALSE, s))
        /\ UNCHANGED <<filters, live>>

OpInserterErase ==
    \E id \in live :
        /\ last.n < MaxOps
        /\ \E w \in {inserter_erase(World(0))} :
               OpCommit(w, OpOutcome("inserter_erase", w, "", Coord(0, 0),
                                     FALSE, <<>>))
        /\ UNCHANGED <<filters, live>>

OpInserterMoveCursor ==
    \E id \in live, offset \in Offsets :
        /\ last.n < MaxOps
        /\ \E w \in {inserter_move_cursor(World(0), offset, FALSE)} :
               OpCommit(w, OpOutcome("inserter_move_cursor", w, "", offset,
                                     FALSE, <<>>))
        /\ UNCHANGED <<filters, live>>

OpInserterDelete ==
    \E id \in live :
        /\ last.n < MaxOps
        /\ \E w \in {inserter_delete(World(0), id, FALSE)} :
               OpCommit(w, OpOutcome("inserter_delete", w, "", Coord(0, -1),
                                     FALSE, <<>>))
        /\ live' = live \ {id}
        /\ UNCHANGED filters

NextOps ==
    \/ OpInsert \/ OpMoveCursor \/ OpInserterNew \/ OpInserterInsert
    \/ OpInserterErase \/ OpInserterMoveCursor \/ OpInserterDelete

SpecOps == InitOps /\ [][NextOps]_vars

RECURSIVE Copies(_, _)
\* k copies of the string s
Copies(s, k) == IF k = 0 THEN <<>> ELSE s \o Copies(s, k - 1)

RECURSIVE Spliced(_, _, _, _)
\* the text t0 from offset p on, with one copy of s ahead of offset x for
\* every selection of sels0 that begins at x
Spliced(t0, sels0, s, p) ==
    IF p > Len(t0) THEN <<>>
    ELSE Copies(s, Cardinality({i \in DOMAIN sels0 : SelBegin(sels0[i]) = p}))
         \o (IF p < Len(t0) THEN <<t0[p + 1]>> ELSE <<>>)
         \o Spliced(t0, sels0, s, p + 1)

\* C11: Window::insert(s) with n selections leaves n selections and a buffer
\* that gained exactly n copies of s, one immediately before each selection's
\* first character; "ab\ncd" with carets at 0 and 3 and s = "X" becomes
\* "Xab\nXcd" with two selections.
C11_InsertAtEveryBegin ==
    (last.op = "insert" /\ last.ok) =>
        /\ Len(selections) = Len(last.sels0)
        /\ Len(text) = Len(last.text0) + Len(last.sels0) * Len(last.s)
        /\ text = Spliced(last.text0, last.sels0, last.s, 0)
        /\ \A i \in DOMAIN selections :
              LET b == SelBegin(selections[i])
              IN  /\ b >= Len(last.s)
                  /\ SubSeq(text, b - Len(last.s) + 1, b) = last.s
                  /\ CharAt(text, b, "") =
                        CharAt(last.text0, SelBegin(last.sels0[i]), "")
        /\ ( /\ last.text0 = <<"a", "b", NL, "c", "d">>
             /\ last.s = <<"X">>
             /\ Len(last.sels0) = 2
             /\ SelBegin(last.sels0[1]) = 0 /\ SelBegin(last.sels0[2]) = 3 )
           => text = <<"X", "a", "b", NL, "X", "c", "d">>

C11_Witness ==
    /\ last.op = "insert" /\ last.ok
    /\ last.text0 = <<"a", "b", NL, "c", "d">>
    /\ last.sels0 = <<Sel(0, 0, <<>>), Sel(3, 3, << <<"X">> >>)>>
    /\ text = <<"X", "a", "b", NL, "X", "c", "d">>
    /\ Len(selections) = 2

\* the end of the line of t that holds offset p: its newline, or the end of t
LineEnd(t, p) ==
    CHOOSE e \in p..Len(t) :
        /\ e = Len(t) \/ t[e + 1] = NL
        /\ \A x \in p..(e - 1) : t[x + 1] # NL

\* C12: constructing an inserter in OpenLineBelow mode inserts, for every
\* selection, one "\n" at the end of the line holding the selection's last
\* character (its newline, or the end of the buffer) and leaves the selection
\* a caret at the start of the new empty line; "abc\ndef" with a caret inside
\* "abc" becomes "abc\n\ndef" with the caret at offset 4.
C12_OpenLineBelow ==
    (last.op = "inserter_new" /\ last.ok /\ last.mode = "OpenLineBelow") =>
        /\ Len(text) = Len(last.text0) + Len(last.sels0)
        /\ Len(last.sels0) = 1 =>
              LET s0 == last.sels0[1]
                  e  == LineEnd(last.text0, Max(s0.first, s0.last))
              IN  text = SubSeq(last.text0, 1, e) \o <<NL>> \o
                         SubSeq(last.text0, e + 1, Len(last.text0))
        /\ \A i \in DOMAIN selections :
              LET c == selections[i]
              IN  /\ c.first = c.last
                  /\ c.last > 0 /\ text[c.last] = NL
                  /\ c.last = Len(text) \/ text[c.last + 1] = NL
        /\ ( /\ last.text0 = <<"a", "b", "c", NL, "d", "e", "f">>
             /\ last.sels0 = <<Sel(1, 1, <<>>)>> )
           => ( /\ text = <<"a", "b", "c", NL, NL, "d", "e", "f">>
                /\ selections[1].last = 4 )

\* C13: a successful construction, in every mode, keeps the number of
\* selections, leaves every selection a caret and keeps its captures; the
\* session's move_cursor, also run by the destructor, keeps the number of
\* selections and leaves every selection a caret.
C13_ConstructionKeepsCaptures ==
    /\ (last.op = "inserter_new" /\ last.ok) =>
          /\ Len(selections) = Len(last.sels0)
          /\ \A i \in DOMAIN selections :
                /\ selections[i].first = selections[i].last
                /\ selections[i].captures = last.sels0[i].captures
    /\ (last.op \in {"inserter_move_cursor", "inserter_delete"} /\ last.ok) =>
          /\ Len(selections) = Len(last.sels0)
          /\ \A i \in DOMAIN selections :
                selections[i].first = selections[i].last

C13_Witness ==
    /\ last.op = "inserter_new" /\ last.ok /\ last.mode = "OpenLineAbove"
    /\ Len(last.sels0) = 2
    /\ last.sels0[2].captures = << <<"X">> >>
    /\ selections[2].captures = << <<"X">> >>
    /\ text # last.text0

\* C15: IncrementalInserter::erase with a single caret at offset p > 0 removes
\* exactly the character at p - 1 and leaves the caret at p - 1; with the
\* caret at offset 0 it removes no character.
C15_Backspace ==
    ( /\ last.op = "inserter_erase" /\ last.ok
      /\ Len(last.sels0) = 1 /\ last.sels0[1].first = last.sels0[1].last ) =>
        LET p == last.sels0[1].last
        IN  IF p > 0
            THEN /\ text = SubSeq(last.text0, 1, p - 1) \o
                           SubSeq(last.text0, p + 1, Len(last.text0))
                 /\ Len(selections) = 1
                 /\ selections[1].first = p - 1 /\ selections[1].last = p - 1
            ELSE text = last.text0

\* C16: move_cursor(offset, append = true) keeps the number of selections and
\* every anchor, and puts every cursor at the buffer position of its old
\* line/column plus offset; move_cursor(offset, append = false) leaves one
\* caret at the primary cursor's old line/column plus offset; the buffer
\* contents are unchanged in both cases.
C16_MoveCursorFrame ==
    (last.op = "move_cursor" /\ last.ok) =>
        LET Moved(it) ==
                BufIteratorAt(last.text0,
                              CoordAdd(BufLineAndColumnAt(last.text0, it),
                                       last.offset))
            n == Len(last.sels0)
        IN  /\ text = last.text0
            /\ last.append =>
                  /\ Len(selections) = n
                  /\ \A i \in DOMAIN selections :
                        /\ selections[i].first = last.sels0[i].first
                        /\ selections[i].last = Moved(last.sels0[i].last)
            /\ ~last.append =>
                  /\ Len(selections) = 1
                  /\ selections[1].first = Moved(last.sels0[n].last)
                  /\ selections[1].last = Moved(last.sels0[n].last)

C16_Witness ==
    /\ last.op = "move_cursor" /\ last.ok /\ last.append
    /\ last.offset = Coord(1, 0)
    /\ Len(last.sels0) = 2
    /\ selections[1].first = last.sels0[1].first
    /\ selections[1].last # last.sels0[1].last
    /\ selections[1].last # selections[1].first

\* C18: after a construction in InsertAtLineBegin mode every selection is a
\* caret at the beginning of the line that held the selection's begin
\* position (offset 0 or just after a newline), also when that line is the
\* first of the buffer and when the begin position is on a newline.
C18_InsertAtLineBegin ==
    (last.op = "inserter_new" /\ last.ok /\ last.mode = "InsertAtLineBegin") =>
        /\ text = last.text0
        /\ \A i \in DOMAIN selections :
              LET b == SelBegin(last.sels0[i])
                  c == selections[i]
              IN  /\ c.first = c.last
                  /\ c.last = LineStart(text, BufLineAndColumnAt(text, b).line)

-----------------------------------------------------------------------------
(* The view specification: a Window on a fixed buffer is resized, rendered  *)
(* and its cursor moved; the buffer is not edited.                          *)

\* ten empty lines, then a line holding "a"
LongText == <<NL, NL, NL, NL, NL, NL, NL, NL, NL, NL, "a">>

ViewTexts == {<<TAB, "a", "a">>, <<"a", "a", NL, "a", "a">>, LongText}

ViewDims == {Coord(1, 1), Coord(3, 80)}

SetDimensions ==
    \E d \in ViewDims :
        /\ Commit("set_dimensions", [World(0) EXCEPT !.dimensions = d])
        /\ UNCHANGED <<filters, live>>

UpdateDisplayBuffer ==
    /\ Commit("update_display_buffer", update_display_buffer(World(0), filters))
    /\ UNCHANGED <<filters, live>>

\* a new Window after set_dimensions((3, 80))
InitView ==
    /\ \E t \in ViewTexts : Constructed(t)
    /\ dimensions = Coord(3, 80)

NextView == SetDimensions \/ UpdateDisplayBuffer \/ MoveCursorTo

SpecView == InitView /\ [][NextView]_vars

\* the iterators the display buffer covers
Displayed == display[1].begin .. (display[Len(display)].end - 1)

\* C8: with a non-empty, up-to-date display buffer, every iterator it in
\* [front.begin, back.end) has iterator_at(line_and_column_at(it)) = it.
C8_RoundTrip ==
    (display # <<>> /\ UpToDate) =>
        \A it \in Displayed :
            iterator_at(text, display, position,
                        line_and_column_at(text, display, position, it)) = it

\* the display coordinates the mapping is asked for
ViewCoords == {Coord(l, c) : l \in 0..3, c \in 0..9}

\* the last atom whose coord is not beyond window_pos, 0 when there is none
LastNotBeyond(d, window_pos) ==
    LET I == {i \in DOMAIN d : CoordLeq(d[i].coord, window_pos)}
    IN  IF I = {} THEN 0 ELSE CHOOSE i \in I : \A j \in I : j <= i

\* C17: with a non-empty display buffer and window_pos >= (0,0) that is not
\* past the end of the last atom, Window::iterator_at answers with iterator_at
\* of the last atom whose coord <= window_pos, the last atom of the display
\* buffer included; the raw buffer arithmetic is left to the other positions.
C17_LastAtomAnswers ==
    display # <<>> =>
        \A window_pos \in ViewCoords :
            ( /\ CoordLeq(Coord(0, 0), window_pos)
              /\ LastNotBeyond(display, window_pos) > 0
              /\ CoordLess(window_pos,
                           AtomEndCoord(text, display[Len(display)])) )
            => iterator_at(text, display, position, window_pos) =
                 AtomIteratorAt(text,
                                display[LastNotBeyond(display, window_pos)],
                                window_pos)

\* the rule of C10 for one axis
C10_Rule(p, c, dim) ==
    IF c < 0 THEN (IF p + c > 0 THEN p + c ELSE 0)
    ELSE IF c >= dim THEN p + c - (dim - 1)
    ELSE p

\* C10: the scroll origin changes only by the rule of scroll_to_keep_cursor_
\* visible, applied to the display coordinate of the primary cursor; with
\* dimensions (3, 80), position (0, 0), an up-to-date display buffer and the
\* cursor on buffer line 10, position.line becomes 8.
C10_ScrollRule ==
    /\ ~last.scrolled => position = last.pos0
    /\ last.scrolled =>
          LET c == line_and_column_at(text, display, last.pos0,
                                      selections[Len(selections)].last)
          IN  /\ position.line = C10_Rule(last.pos0.line, c.line, dimensions.line)
              /\ position.column =
                    C10_Rule(last.pos0.column, c.column, dimensions.column)
    /\ ( /\ last.scrolled /\ last.fresh0
         /\ dimensions = Coord(3, 80) /\ last.pos0 = Coord(0, 0)
         /\ BufLineAndColumnAt(text, selections[Len(selections)].last).line = 10 )
       => position.line = 8

C10_Witness ==
    /\ last.scrolled /\ last.fresh0 /\ display # <<>>
    /\ dimensions = Coord(3, 80) /\ last.pos0 = Coord(0, 0)
    /\ BufLineAndColumnAt(text, selections[Len(selections)].last).line = 10
    /\ position.line = 8

-----------------------------------------------------------------------------
(* The scroll specification: a Window that was scrolled and resized, its    *)
(* display buffer rebuilt or still empty; up to MaxOps operations are       *)
(* applied, set_dimensions with any dimensions among them.                  *)

ScrollTexts == {<<"a", NL, "a", "a">>}

ScrollDims == {Coord(0, 0), Coord(1, 1), Coord(2, 2), Coord(-1, -1)}

ScrollPositions == {Coord(0, 0), Coord(0, 1), Coord(1, 0), Coord(1, 1)}

ScrollSelections(t) ==
    {<<Sel(p, p, <<>>)>> : p \in 0..Len(t)}
    \cup {<<Sel(0, 0, <<>>), Sel(3, 3, <<>>)>>, <<Sel(3, 3, <<>>), Sel(0, 0, <<>>)>>,
          <<Sel(1, 3, <<>>)>>}

\* a Window on t after cursor motions, set_dimensions and, unless the display
\* buffer is still empty, update_display_buffer
InitScroll ==
    \E t \in ScrollTexts, dim \in ScrollDims, pos \in ScrollPositions,
       rendered \in BOOLEAN :
      \E sels \in ScrollSelections(t) :
        /\ text = t
        /\ depth = 0
        /\ gstart = <<>>
        /\ undo_stack = <<>>
        /\ selections = sels
        /\ position = pos
        /\ dimensions = dim
        /\ filters = DefaultFilters
        /\ display = IF rendered
                     THEN update_display_buffer(
                            [text |-> t, sels |-> sels, position |-> pos,
                             dimensions |-> dim, display |-> <<>>],
                            DefaultFilters).display
                     ELSE <<>>
        /\ inserter = 0
        /\ live = {}
        /\ last = [op |-> "drawn", ok |-> TRUE, text0 |-> t, sels0 |-> sels,
                   depth0 |-> 0, mode |-> "", offset |-> Coord(0, 0),
                   append |-> FALSE, s |-> <<>>, n |-> 0, log |-> <<>>,
                   scrolled |-> FALSE, faithful0 |-> FALSE]

OpSetDimensions ==
    \E d \in ScrollDims :
        /\ last.n < MaxOps
        /\ \E w \in {[World(0) EXCEPT !.dimensions = d]} :
               OpCommit(w, OpOutcome("set_dimensions", w, "", Coord(0, 0),
                                     FALSE, <<>>))
        /\ UNCHANGED <<filters, live>>

OpMoveCursorTo ==
    \E it \in 0..Len(text) :
        /\ last.n < MaxOps
        /\ \E w \in {move_cursor_to(World(0), it)} :
               OpCommit(w, OpOutcome("move_cursor_to", w, "", Coord(0, 0),
                                     FALSE, <<>>))
        /\ UNCHANGED <<filters, live>>

OpErase ==
    /\ last.n < MaxOps
    /\ \E w \in {window_erase(World(0))} :
           OpCommit(w, OpOutcome("erase", w, "", Coord(0, 0), FALSE, <<>>))
    /\ UNCHANGED <<filters, live>>

NextScroll ==
    \/ OpSetDimensions \/ OpMoveCursorTo \/ OpMoveCursor \/ OpInsert \/ OpErase
    \/ OpInserterNew \/ OpInserterInsert \/ OpInserterErase
    \/ OpInserterMoveCursor \/ OpInserterDelete

SpecScroll == InitScroll /\ [][NextScroll]_vars

\* the display coordinate c lies inside the dimensions dim
InView(c, dim) ==
    /\ 0 <= c.line /\ c.line < dim.line
    /\ 0 <= c.column /\ c.column < dim.column

\* the display coordinate of the primary cursor after update_display_buffer
CursorAfterUpdate(w) ==
    LET v == update_display_buffer(w, filters)
    IN  line_and_column_at(v.text, v.display, v.position, v.sels[Len(v.sels)].last)

ScrollingOps == {"move_cursor", "move_cursor_to", "insert", "erase"}

\* C19: when dimensions >= (1,1), the display buffer was rebuilt since
\* position, dimensions and contents last changed, and the display mapping is
\* buffer line/column minus position before and after, one cursor-moving or
\* editing Window operation followed by update_display_buffer leaves the
\* primary cursor's display coordinate inside the dimensions; on a Window
\* whose display buffer is still empty the scroll does not bring it in view.
C19_CursorInView ==
    /\ ( /\ last.op \in ScrollingOps /\ last.ok /\ last.scrolled
         /\ last.faithful0
         /\ dimensions.line >= 1 /\ dimensions.column >= 1
         /\ Faithful(text, update_display_buffer(World(0), filters).display,
                     position) )
       => InView(CursorAfterUpdate(World(0)), dimensions)
    /\ ( /\ last.op = "drawn" /\ display = <<>> /\ position = Coord(0, 0)
         /\ dimensions = Coord(1, 1) )
       => ~InView(CursorAfterUpdate(move_cursor_to(World(0), Len(text) - 1)),
                  dimensions)

\* C20: in every state reached by Window and inserter operations and
\* set_dimensions calls with any dimensions, the scroll origin has
\* position.line >= 0 and position.column >= 0.
C20_PositionNonNegative == position.line >= 0 /\ position.column >= 0

C20_Witness ==
    /\ last.op = "move_cursor_to" /\ last.scrolled
    /\ dimensions = Coord(-1, -1)
    /\ position.line > 1 /\ position.column >= 0

====
